---------------------------- MODULE Spec2Model ----------------------------
(***************************************************************************)
(* Deduplicated, reference-counted file store of file-vault.               *)
(*                                                                         *)
(* The model follows backend/files/models.py (File, increment_ref_count,   *)
(* decrement_ref_count) and backend/files/services/file_service.py         *)
(* (FileManager.upload_file, FileManager.delete_file).  Several workers    *)
(* call upload_file and delete_file against one shared table.  Every       *)
(* database statement is one atomic step; workers interleave between       *)
(* statements.  A transaction that contains a single write statement is    *)
(* one step (the write becomes visible at its commit).  The code of a call *)
(* before its first statement and after its last one touches no shared     *)
(* state, so a call begins with its first statement and returns with its   *)
(* last one.                                                               *)
(*                                                                         *)
(* The read side follows services/search_service.py (SearchService.search),*)
(* serializers.py (FileSearchParamsSerializer) and FileManager's           *)
(* get_file, get_storage_summary and _compute_hash: each is an operator    *)
(* computed as the code computes it.  Text is a sequence of one-character  *)
(* strings, an optional value is <<>> (absent, None) or <<v>>.             *)
(*                                                                         *)
(* What the client is answered for the outcome of a call follows views.py  *)
(* (FileViewSet.create, FileViewSet.destroy).  SpecFair adds weak fairness *)
(* of every worker's next statement for the termination property.         *)
(***************************************************************************)
EXTENDS Integers, Sequences, FiniteSets, TLC

(* ------------------------------ bounds -------------------------------- *)
NumProcs == 3      \* concurrent workers
NumHashes == 2     \* distinct file contents (one hash each)
MaxCalls == 4      \* upload_file / delete_file calls started in one run

Procs == 1..NumProcs
Hashes == 1..NumHashes
\* ids a caller may pass to delete_file: every id a record can get; an id
\* names no record until that many records have been created
FileIds == 1..NumHashes

\* file_obj.size of the content with hash h
SizeOf(h) == 1024 * h

\* the sizes an upload may declare when file_obj.size is not tied to the
\* hash: distinct contents of equal size, and a colliding hash or a corrupted
\* upload whose size differs from the stored record's
Sizes == {1024, 2048}

\* original_filename values of the stored files
FileNames == << <<"a", "b", ".", "t">>, <<"b", ".", "P">>, <<"A", "B", "t">> >>

\* the filename an upload of the content with hash h gives
NameOf(h) == FileNames[((h - 1) % Len(FileNames)) + 1]

\* uploaded_at is a timestamp in ticks; its date is the day the tick falls in
TicksPerDay == 2
DateOf(t) == (t + 1) \div TicksPerDay

VARIABLES
    records,     \* the File table: records[id] is the row with primary key id
    rowLocking,  \* whether the database backend implements SELECT ... FOR UPDATE
    lock,        \* lock[id]: worker holding the row lock of id, 0 when free
    pc,          \* pc[p]: the statement worker p executes next
    arg,         \* arg[p]: file hash (upload_file) or file_id (delete_file)
    inst,        \* inst[p]: the in-memory File instance (existing / f)
    obj,         \* obj[p]: the row read by select_for_update in decrement_ref_count
    size,        \* size[p]: file_obj.size of the running upload_file
    blobs,       \* blobs[h]: files written to the storage under the name of hash h
    log,         \* outcomes of the calls that have returned, in return order
    calls,       \* number of calls started
    overlap,     \* TRUE once a call started while another one was running
    request,     \* the read request made of the store, NoRequest before it
    reply,       \* what that request returned or raised
    lookups      \* number of times search has run its queries on the table

vars == <<records, rowLocking, lock, pc, arg, inst, obj, size, blobs,
          log, calls, overlap, request, reply, lookups>>

NoRequest == [op |-> "none"]

NoInst == [id |-> 0, version |-> 0, ref_count |-> 0, is_deleted |-> FALSE]

\* what a call hands to its caller: upload_file returns (File, is_new),
\* delete_file returns deleted, either may raise err
Returns(op, a, id, new, del, rc) ==
    [op |-> op, arg |-> a, err |-> "none", id |-> id,
     is_new |-> new, deleted |-> del, ref_count |-> rc]
Raises(op, a, e) ==
    [op |-> op, arg |-> a, err |-> e, id |-> 0,
     is_new |-> FALSE, deleted |-> FALSE, ref_count |-> 0]

Ids == 1..Len(records)

\* the fields of a row that a File instance loaded from it carries
Load(id) == [id |-> id, version |-> records[id].version,
             ref_count |-> records[id].ref_count,
             is_deleted |-> records[id].is_deleted]

\* mutant of ActiveByHash: the lookup forgets the file_hash filter
ActiveByHash_AnyHash(h) == {id \in Ids : ~records[id].is_deleted}

\* mutant of ActiveByHash: the lookup forgets the is_deleted filter
ActiveByHash_WithDeleted(h) == {id \in Ids : records[id].file_hash = h}

\* File.objects.filter(file_hash=h, is_deleted=False)
ActiveByHash(h) == {id \in Ids : records[id].file_hash = h /\ ~records[id].is_deleted}

\* mutant of ActiveById: the lookup forgets the is_deleted filter
ActiveById_WithDeleted(id) == {i \in Ids : i = id}

\* File.objects.filter(pk=id, is_deleted=False)
ActiveById(id) == {i \in Ids : i = id /\ ~records[i].is_deleted}

\* mutant of HashTaken: file_hash is declared without unique=True
HashTaken_NotUnique(h) == FALSE

\* mutant of HashTaken: the unique index covers the rows with
\* is_deleted=False only
HashTaken_ActiveOnly(h) ==
    \E id \in Ids : records[id].file_hash = h /\ ~records[id].is_deleted

\* unique=True on file_hash: the INSERT is rejected when any row, deleted or
\* not, already has the hash
HashTaken(h) == \E id \in Ids : records[id].file_hash = h

\* File(id=uuid4(), original_filename=filename, size=size,
\* file_hash=file_hash, ref_count=1) with the field defaults
\* is_deleted=False, version=0 and uploaded_at = now (auto_now_add): every
\* INSERT gets a later timestamp than the rows before it
NewFile(h, sz) == [file_hash |-> h, size |-> sz, ref_count |-> 1,
                   is_deleted |-> FALSE, version |-> 0,
                   original_filename |-> NameOf(h),
                   uploaded_at |-> Len(records) + 1]

\* a statement that needs the row lock of id waits while another worker holds it
RowLockFree(p, id) == lock[id] = 0 \/ lock[id] = p

\* mutant of UpdateIncrement: self.ref_count += 1; self.version += 1;
\* self.save() -- the values of the instance overwrite the row
UpdateIncrement_Save(self, row) ==
    [updated |-> TRUE,
     row |-> [row EXCEPT !.ref_count = self.ref_count + 1,
                         !.version = self.version + 1]]

\* mutant of UpdateIncrement: the filter is pk=self.pk only
UpdateIncrement_NoVersionFilter(self, row) ==
    [updated |-> TRUE,
     row |-> [row EXCEPT !.ref_count = @ + 1, !.version = @ + 1]]

\* mutant of UpdateIncrement: the number of rows matched is not looked at
UpdateIncrement_IgnoreResult(self, row) ==
    [updated |-> TRUE,
     row |-> IF row.version = self.version
             THEN [row EXCEPT !.ref_count = @ + 1, !.version = @ + 1]
             ELSE row]

\* UPDATE ... WHERE pk=self.pk AND version=self.version
\*        SET ref_count = ref_count + 1, version = version + 1
UpdateIncrement(self, row) ==
    IF row.version = self.version
    THEN [updated |-> TRUE,
          row |-> [row EXCEPT !.ref_count = @ + 1, !.version = @ + 1]]
    ELSE [updated |-> FALSE, row |-> row]

\* mutant of UpdateDecrement: the branch tests ref_count >= 1
UpdateDecrement_OffByOne(self, o, row) ==
    IF row.version # self.version
    THEN [updated |-> FALSE, row |-> row]
    ELSE IF o.ref_count >= 1
         THEN [updated |-> TRUE,
               row |-> [row EXCEPT !.ref_count = @ - 1, !.version = @ + 1]]
         ELSE [updated |-> TRUE,
               row |-> [row EXCEPT !.is_deleted = TRUE, !.version = @ + 1]]

\* mutant of UpdateDecrement: the branch is taken on the instance read
\* before the lock and the filter is pk=self.pk only
UpdateDecrement_Unchecked(self, o, row) ==
    IF self.ref_count > 1
    THEN [updated |-> TRUE,
          row |-> [row EXCEPT !.ref_count = @ - 1, !.version = @ + 1]]
    ELSE [updated |-> TRUE,
          row |-> [row EXCEPT !.is_deleted = TRUE, !.version = @ + 1]]

\* mutant of UpdateDecrement: the soft-deleting UPDATE does not bump version
UpdateDecrement_NoVersionBump(self, o, row) ==
    IF row.version # self.version
    THEN [updated |-> FALSE, row |-> row]
    ELSE IF o.ref_count > 1
         THEN [updated |-> TRUE,
               row |-> [row EXCEPT !.ref_count = @ - 1, !.version = @ + 1]]
         ELSE [updated |-> TRUE, row |-> [row EXCEPT !.is_deleted = TRUE]]

\* mutant of UpdateDecrement: the soft-deleting UPDATE also clears file_hash
\* to free the hash for a later upload
UpdateDecrement_ReleaseHash(self, o, row) ==
    IF row.version # self.version
    THEN [updated |-> FALSE, row |-> row]
    ELSE IF o.ref_count > 1
         THEN [updated |-> TRUE,
               row |-> [row EXCEPT !.ref_count = @ - 1, !.version = @ + 1]]
         ELSE [updated |-> TRUE,
               row |-> [row EXCEPT !.is_deleted = TRUE, !.version = @ + 1,
                                   !.file_hash = 0]]

\* mutant of UpdateDecrement: the soft-deleting UPDATE also takes the last
\* reference off ref_count
UpdateDecrement_DecrementLast(self, o, row) ==
    IF row.version # self.version
    THEN [updated |-> FALSE, row |-> row]
    ELSE IF o.ref_count > 1
         THEN [updated |-> TRUE,
               row |-> [row EXCEPT !.ref_count = @ - 1, !.version = @ + 1]]
         ELSE [updated |-> TRUE,
               row |-> [row EXCEPT !.ref_count = @ - 1, !.is_deleted = TRUE,
                                   !.version = @ + 1]]

\* mutant of UpdateDecrement: the filter of both UPDATEs is pk=self.pk only
UpdateDecrement_NoVersionFilter(self, o, row) ==
    IF o.ref_count > 1
    THEN [updated |-> TRUE,
          row |-> [row EXCEPT !.ref_count = @ - 1, !.version = @ + 1]]
    ELSE [updated |-> TRUE,
          row |-> [row EXCEPT !.is_deleted = TRUE, !.version = @ + 1]]

\* mutant of UpdateDecrement: the filter uses the version of the locked row
\* obj instead of the version of the instance
UpdateDecrement_LockedVersion(self, o, row) ==
    IF row.version # o.version
    THEN [updated |-> FALSE, row |-> row]
    ELSE IF o.ref_count > 1
         THEN [updated |-> TRUE,
               row |-> [row EXCEPT !.ref_count = @ - 1, !.version = @ + 1]]
         ELSE [updated |-> TRUE,
               row |-> [row EXCEPT !.is_deleted = TRUE, !.version = @ + 1]]

\* mutant of UpdateDecrement: the number of rows matched is not looked at
UpdateDecrement_IgnoreResult(self, o, row) ==
    [updated |-> TRUE,
     row |-> IF row.version # self.version
             THEN row
             ELSE IF o.ref_count > 1
             THEN [row EXCEPT !.ref_count = @ - 1, !.version = @ + 1]
             ELSE [row EXCEPT !.is_deleted = TRUE, !.version = @ + 1]]

\* the UPDATE of decrement_ref_count: the branch is taken on the locked row
\* o, the filter uses the version of the instance self
UpdateDecrement(self, o, row) ==
    IF row.version # self.version
    THEN [updated |-> FALSE, row |-> row]
    ELSE IF o.ref_count > 1
         THEN [updated |-> TRUE,
               row |-> [row EXCEPT !.ref_count = @ - 1, !.version = @ + 1]]
         ELSE [updated |-> TRUE,
               row |-> [row EXCEPT !.is_deleted = TRUE, !.version = @ + 1]]

\* mutant of RefreshFromDb: the instance is not reloaded after the UPDATE
RefreshFromDb_Stale(self, row) == self

\* self.refresh_from_db(): the instance takes the values of its row
RefreshFromDb(self, row) ==
    [self EXCEPT !.version = row.version, !.ref_count = row.ref_count,
                 !.is_deleted = row.is_deleted]

Init ==
    /\ records = <<>>
    /\ rowLocking \in BOOLEAN
    /\ lock = [id \in FileIds |-> 0]
    /\ pc = [p \in Procs |-> "idle"]
    /\ arg = [p \in Procs |-> 0]
    /\ inst = [p \in Procs |-> NoInst]
    /\ obj = [p \in Procs |-> NoInst]
    /\ size = [p \in Procs |-> 0]
    /\ blobs = [h \in Hashes |-> 0]
    /\ log = <<>>
    /\ calls = 0
    /\ overlap = FALSE
    /\ request = NoRequest
    /\ reply = NoRequest
    /\ lookups = 0

\* an idle worker takes a new call
Begin(p) ==
    /\ pc[p] = "idle"
    /\ calls < MaxCalls
    /\ calls' = calls + 1
    /\ overlap' = (overlap \/ \E q \in Procs : pc[q] # "idle")

\* the call of worker p goes on after its first statement
Continue(p, a, sz, next) ==
    /\ pc' = [pc EXCEPT ![p] = next]
    /\ arg' = [arg EXCEPT ![p] = a]
    /\ size' = [size EXCEPT ![p] = sz]
    /\ UNCHANGED log

\* the call of worker p returns or raises e to its caller; its local
\* variables go out of scope
Finish(p, e) ==
    /\ log' = Append(log, e)
    /\ pc' = [pc EXCEPT ![p] = "idle"]
    /\ arg' = [arg EXCEPT ![p] = 0]
    /\ inst' = [inst EXCEPT ![p] = NoInst]
    /\ obj' = [obj EXCEPT ![p] = NoInst]
    /\ size' = [size EXCEPT ![p] = 0]

(* ----------------------------- upload_file ---------------------------- *)

\* upload_file with content of hash h and file_obj.size sz: the hash is
\* computed, the duplicate lookup is only logged, then
\*   with transaction.atomic():
\*       new_file.file.save(storage_name, file_obj, save=False)
\*       new_file.save()
\* writes the bytes to the storage and either inserts the row (return
\* new_file, True) or raises IntegrityError from the unique constraint; the
\* rollback does not remove the file written
UploadCreate(p, h, sz) ==
    /\ Begin(p)
    /\ blobs' = [blobs EXCEPT ![h] = @ + 1]
    /\ IF HashTaken(h)
       THEN /\ Continue(p, h, sz, "get_existing")
            /\ UNCHANGED <<records, inst, obj>>
       ELSE /\ records' = Append(records, NewFile(h, sz))
            /\ Finish(p, Returns("upload", h, Len(records) + 1, TRUE, FALSE, 1))
    /\ UNCHANGED <<rowLocking, lock, request, reply, lookups>>

\* existing = File.objects.get(file_hash=file_hash, is_deleted=False)
\* File.DoesNotExist -> FileIntegrityError
UploadGetExisting(p) ==
    /\ pc[p] = "get_existing"
    /\ IF ActiveByHash(arg[p]) = {}
       THEN Finish(p, Raises("upload", arg[p], "FileIntegrityError"))
       ELSE /\ \E id \in ActiveByHash(arg[p]) : inst' = [inst EXCEPT ![p] = Load(id)]
            /\ pc' = [pc EXCEPT ![p] = "increment"]
            /\ UNCHANGED <<arg, obj, size, log>>
    /\ UNCHANGED <<records, rowLocking, lock, blobs, calls, overlap, request, reply, lookups>>

\* existing.increment_ref_count(); RuntimeError -> FileError;
\* return existing, False
UploadIncrement(p) ==
    /\ pc[p] = "increment"
    /\ RowLockFree(p, inst[p].id)
    /\ LET id == inst[p].id
           u == UpdateIncrement(inst[p], records[id])
           f == RefreshFromDb(inst[p], u.row)
       IN  /\ records' = [records EXCEPT ![id] = u.row]
           /\ IF u.updated
              THEN Finish(p, Returns("upload", arg[p], id, FALSE, FALSE, f.ref_count))
              ELSE Finish(p, Raises("upload", arg[p], "FileError"))
    /\ UNCHANGED <<rowLocking, lock, blobs, calls, overlap, request, reply, lookups>>

(* ----------------------------- delete_file ---------------------------- *)

\* delete_file(id): f = File.objects.get(pk=file_id, is_deleted=False)
\* File.DoesNotExist -> FileMissingError
DeleteGet(p, id) ==
    /\ Begin(p)
    /\ IF ActiveById(id) = {}
       THEN Finish(p, Raises("delete", id, "FileMissingError"))
       ELSE /\ inst' = [inst EXCEPT ![p] = Load(id)]
            /\ Continue(p, id, 0, "lock")
            /\ UNCHANGED obj
    /\ UNCHANGED <<records, rowLocking, lock, blobs, request, reply, lookups>>

\* obj = File.objects.select_for_update().get(pk=self.pk)
DeleteLock(p) ==
    /\ pc[p] = "lock"
    /\ RowLockFree(p, inst[p].id)
    /\ obj' = [obj EXCEPT ![p] = Load(inst[p].id)]
    /\ lock' = IF rowLocking THEN [lock EXCEPT ![inst[p].id] = p] ELSE lock
    /\ pc' = [pc EXCEPT ![p] = "decrement"]
    /\ UNCHANGED <<records, rowLocking, arg, inst, size, blobs, log, calls, overlap,
                   request, reply, lookups>>

\* mutant of DeleteDecrement: the row lock is released when the UPDATE
\* matched a row, and kept when the call raises
DeleteDecrement_KeepLockOnError(p) ==
    /\ pc[p] = "decrement"
    /\ LET id == inst[p].id
           u == UpdateDecrement(inst[p], obj[p], records[id])
           f == RefreshFromDb(inst[p], u.row)
       IN  /\ records' = [records EXCEPT ![id] = u.row]
           /\ IF u.updated
              THEN /\ lock' = [lock EXCEPT ![id] = IF @ = p THEN 0 ELSE @]
                   /\ Finish(p, Returns("delete", arg[p], id, FALSE, f.is_deleted,
                                        f.ref_count))
              ELSE /\ lock' = lock
                   /\ Finish(p, Raises("delete", arg[p], "FileError"))
    /\ UNCHANGED <<rowLocking, blobs, calls, overlap, request, reply, lookups>>

\* the UPDATE of decrement_ref_count, refresh_from_db, deleted = f.is_deleted
\* (RuntimeError -> FileError) and the end of delete_file's transaction,
\* commit or rollback, which releases the row lock
DeleteDecrement(p) ==
    /\ pc[p] = "decrement"
    /\ LET id == inst[p].id
           u == UpdateDecrement(inst[p], obj[p], records[id])
           f == RefreshFromDb(inst[p], u.row)
       IN  /\ records' = [records EXCEPT ![id] = u.row]
           /\ lock' = [lock EXCEPT ![id] = IF @ = p THEN 0 ELSE @]
           /\ IF u.updated
              THEN Finish(p, Returns("delete", arg[p], id, FALSE, f.is_deleted,
                                     f.ref_count))
              ELSE Finish(p, Raises("delete", arg[p], "FileError"))
    /\ UNCHANGED <<rowLocking, blobs, calls, overlap, request, reply, lookups>>

(* ------------------------------ get_file ------------------------------ *)

\* mutant of get_file: the lookup is File.objects.get(pk=file_id)
get_file_WithDeleted(id) ==
    IF id \notin Ids
    THEN Raises("get_file", id, "FileMissingError")
    ELSE Returns("get_file", id, id, FALSE, FALSE, records[id].ref_count)

\* get_file(id): File.objects.get(pk=file_id, is_deleted=False);
\* File.DoesNotExist -> FileMissingError. It reads and writes nothing else.
get_file(id) ==
    IF ActiveById(id) = {}
    THEN Raises("get_file", id, "FileMissingError")
    ELSE Returns("get_file", id, id, FALSE, FALSE, records[id].ref_count)

(* ------------------------- get_storage_summary ------------------------ *)

\* mutant of SummaryRows: the aggregate runs over File.objects.all()
SummaryRows_All == [id \in Ids |-> TRUE]

\* File.objects.filter(is_deleted=False): the rows the aggregate runs over
SummaryRows == [id \in Ids |-> records[id].is_deleted = FALSE]

\* SQL SUM of a column over the selected rows: NULL, written <<>>, when no
\* row is selected, else <<the sum>>
RECURSIVE SqlSum(_, _)
SqlSum(column, selected) ==
    IF column = <<>>
    THEN <<>>
    ELSE LET rest == SqlSum(Tail(column), Tail(selected))
         IN  IF ~Head(selected) THEN rest
             ELSE IF rest = <<>> THEN <<Head(column)>>
             ELSE <<Head(column) + rest[1]>>

\* stats[...] or 0
OrZero(x) == IF x = <<>> THEN 0 ELSE x[1]

\* round(a / b * 100, 2) for a >= 0 and b > 0, in hundredths of a percent;
\* round() rounds a tie to the even neighbour
RoundPct(a, b) ==
    LET q == (10000 * a) \div b
        r == (10000 * a) % b
    IN  IF 2 * r > b THEN q + 1
        ELSE IF 2 * r < b THEN q
        ELSE IF q % 2 = 0 THEN q ELSE q + 1

\* mutant of get_storage_summary: an empty store counts as fully saved
get_storage_summary_EmptyIsFull ==
    LET total == OrZero(SqlSum([id \in Ids |-> records[id].size * records[id].ref_count],
                               SummaryRows))
        dedup == OrZero(SqlSum([id \in Ids |-> records[id].size], SummaryRows))
        saved == total - dedup
    IN  [total_file_size |-> total,
         deduplicated_storage |-> dedup,
         storage_saved |-> saved,
         savings_percentage |-> IF total # 0 THEN RoundPct(saved, total) ELSE 10000]

\* mutant of get_storage_summary: total_uploaded is Sum("size")
get_storage_summary_IgnoreRefCount ==
    LET total == OrZero(SqlSum([id \in Ids |-> records[id].size], SummaryRows))
        dedup == OrZero(SqlSum([id \in Ids |-> records[id].size], SummaryRows))
        saved == total - dedup
    IN  [total_file_size |-> total,
         deduplicated_storage |-> dedup,
         storage_saved |-> saved,
         savings_percentage |-> IF total # 0 THEN RoundPct(saved, total) ELSE 0]

\* get_storage_summary(): the aggregate, total - dedup and the percentage
\* (savings_percentage is in hundredths: 3333 stands for 33.33)
get_storage_summary ==
    LET total == OrZero(SqlSum([id \in Ids |-> records[id].size * records[id].ref_count],
                               SummaryRows))
        dedup == OrZero(SqlSum([id \in Ids |-> records[id].size], SummaryRows))
        saved == total - dedup
    IN  [total_file_size |-> total,
         deduplicated_storage |-> dedup,
         storage_saved |-> saved,
         savings_percentage |-> IF total # 0 THEN RoundPct(saved, total) ELSE 0]

(* -------------------------------- text -------------------------------- *)

\* str.lower() on one character
LowerChar(c) ==
    CASE c = "A" -> "a"
      [] c = "B" -> "b"
      [] c = "P" -> "p"
      [] c = "T" -> "t"
      [] OTHER -> c

\* str.lower()
Lower(t) == [i \in 1..Len(t) |-> LowerChar(t[i])]

\* str.strip(): leading and trailing blanks are removed
RECURSIVE LStrip(_)
LStrip(t) == IF t # <<>> /\ Head(t) = " " THEN LStrip(Tail(t)) ELSE t
RECURSIVE RStrip(_)
RStrip(t) ==
    IF t # <<>> /\ t[Len(t)] = " " THEN RStrip(SubSeq(t, 1, Len(t) - 1)) ELSE t
Strip(t) == RStrip(LStrip(t))

\* original_filename__icontains=term
IContains(t, term) ==
    \E i \in 1..(Len(t) - Len(term) + 1) :
        SubSeq(Lower(t), i, i + Len(term) - 1) = Lower(term)

\* original_filename__iendswith=suffix
IEndsWith(t, suffix) ==
    /\ Len(suffix) <= Len(t)
    /\ SubSeq(Lower(t), Len(t) - Len(suffix) + 1, Len(t)) = Lower(suffix)

(* ------------------------------- search ------------------------------- *)

\* params.get(key) of an optional value: None when absent
Given(x) == x # <<>>
Val(x) == x[1]

\* the filters of search, one queryset filter each; an absent parameter
\* (and an empty filename or extension) adds no filter
ByFilename(id, params) ==
    (Given(params.filename) /\ Val(params.filename) # <<>>)
    => IContains(records[id].original_filename, Val(params.filename))

ByExtension(id, params) ==
    (Given(params.file_extension) /\ Val(params.file_extension) # <<>>)
    => IEndsWith(records[id].original_filename,
                 <<".">> \o Strip(Lower(Val(params.file_extension))))

\* mutant of BySize: size__gt / size__lt
BySize_Exclusive(id, params) ==
    /\ Given(params.min_size) => records[id].size > Val(params.min_size)
    /\ Given(params.max_size) => records[id].size < Val(params.max_size)

BySize(id, params) ==
    /\ Given(params.min_size) => records[id].size >= Val(params.min_size)
    /\ Given(params.max_size) => records[id].size <= Val(params.max_size)

ByDate(id, params) ==
    /\ Given(params.start_date)
       => DateOf(records[id].uploaded_at) >= Val(params.start_date)
    /\ Given(params.end_date)
       => DateOf(records[id].uploaded_at) <= Val(params.end_date)

\* mutant of Eligible: the queryset starts from File.objects.all()
Eligible_All == Ids

\* File.objects.filter(is_deleted=False)
Eligible == {id \in Ids : records[id].is_deleted = FALSE}

\* mutant of Matching: the filters are combined with OR
Matching_AnyFilter(params) ==
    {id \in Eligible :
        \/ ByFilename(id, params) /\ Given(params.filename)
        \/ ByExtension(id, params) /\ Given(params.file_extension)
        \/ BySize(id, params) /\ (Given(params.min_size) \/ Given(params.max_size))
        \/ ByDate(id, params) /\ (Given(params.start_date) \/ Given(params.end_date))}

\* qs after all the filters of lines 19-51
Matching(params) ==
    {id \in Eligible :
        /\ ByFilename(id, params)
        /\ ByExtension(id, params)
        /\ BySize(id, params)
        /\ ByDate(id, params)}

\* mutant of OrderByUploadedAtDesc: order_by("uploaded_at")
RECURSIVE OrderByUploadedAtDesc_Ascending(_)
OrderByUploadedAtDesc_Ascending(S) ==
    IF S = {} THEN <<>>
    ELSE LET first == CHOOSE id \in S :
                 \A other \in S : records[id].uploaded_at <= records[other].uploaded_at
         IN  <<first>> \o OrderByUploadedAtDesc_Ascending(S \ {first})

\* qs.order_by("-uploaded_at") as the list of ids
RECURSIVE OrderByUploadedAtDesc(_)
OrderByUploadedAtDesc(S) ==
    IF S = {} THEN <<>>
    ELSE LET first == CHOOSE id \in S :
                 \A other \in S : records[id].uploaded_at >= records[other].uploaded_at
         IN  <<first>> \o OrderByUploadedAtDesc(S \ {first})

\* mutant of Slice: the offset is page * page_size
Slice_NextPage(list, page, page_size) ==
    SubSeq(list, page * page_size + 1,
           IF page * page_size + page_size < Len(list)
           THEN page * page_size + page_size ELSE Len(list))

\* list[offset : offset + page_size] with offset = (page - 1) * page_size
Slice(list, page, page_size) ==
    LET offset == (page - 1) * page_size
        stop == IF offset + page_size < Len(list)
                THEN offset + page_size ELSE Len(list)
    IN  SubSeq(list, offset + 1, stop)

\* one item of the response
Item(id) == [id |-> id,
             original_filename |-> records[id].original_filename,
             file_size |-> records[id].size,
             uploaded_at |-> records[id].uploaded_at,
             ref_count |-> records[id].ref_count]

\* SearchService.search(params) on validated params
search(params) ==
    LET qs == Matching(params)
        total == Cardinality(qs)
        page == IF Given(params.page) THEN Val(params.page) ELSE 1
        page_size == IF Given(params.page_size) THEN Val(params.page_size) ELSE 20
        results == Slice(OrderByUploadedAtDesc(qs), page, page_size)
    IN  [items |-> [i \in 1..Len(results) |-> Item(results[i])],
         total |-> total,
         page |-> page,
         page_size |-> page_size,
         source |-> "database"]

(* --------------------- FileSearchParamsSerializer --------------------- *)

MaxPageSize == 100

\* mutant of FieldErrors: page_size has no max_value
FieldErrors_NoMaxPageSize(raw) ==
    \/ Given(raw.filename) /\ Len(Strip(Val(raw.filename))) < 2
    \/ Given(raw.file_extension) /\ Strip(Val(raw.file_extension)) = <<>>
    \/ Given(raw.min_size) /\ Val(raw.min_size) < 0
    \/ Given(raw.max_size) /\ Val(raw.max_size) < 0
    \/ Given(raw.page) /\ Val(raw.page) < 1
    \/ Given(raw.page_size) /\ Val(raw.page_size) < 1

\* the declared fields: CharField trims the value and rejects a blank one,
\* filename has min_length=2, the sizes min_value=0, page min_value=1 and
\* page_size min_value=1, max_value=100
FieldErrors(raw) ==
    \/ Given(raw.filename) /\ Len(Strip(Val(raw.filename))) < 2
    \/ Given(raw.file_extension) /\ Strip(Val(raw.file_extension)) = <<>>
    \/ Given(raw.min_size) /\ Val(raw.min_size) < 0
    \/ Given(raw.max_size) /\ Val(raw.max_size) < 0
    \/ Given(raw.page) /\ Val(raw.page) < 1
    \/ Given(raw.page_size)
       /\ (Val(raw.page_size) < 1 \/ Val(raw.page_size) > MaxPageSize)

\* the values of the fields after field validation: text is trimmed, page
\* and page_size take their defaults 1 and 20 when absent
Cleaned(raw) ==
    [raw EXCEPT
        !.filename = IF Given(@) THEN <<Strip(Val(@))>> ELSE @,
        !.file_extension = IF Given(@) THEN <<Strip(Val(@))>> ELSE @,
        !.page = IF Given(@) THEN @ ELSE <<1>>,
        !.page_size = IF Given(@) THEN @ ELSE <<20>>]

\* mutant of RangeErrors: the comparisons are >=
RangeErrors_RejectEqual(data) ==
    \/ Given(data.min_size) /\ Given(data.max_size)
       /\ Val(data.min_size) >= Val(data.max_size)
    \/ Given(data.start_date) /\ Given(data.end_date)
       /\ Val(data.start_date) >= Val(data.end_date)

\* validate(): min_size cannot exceed max_size, start_date cannot be after
\* end_date
RangeErrors(data) ==
    \/ Given(data.min_size) /\ Given(data.max_size)
       /\ Val(data.min_size) > Val(data.max_size)
    \/ Given(data.start_date) /\ Given(data.end_date)
       /\ Val(data.start_date) > Val(data.end_date)

\* is_valid(): the field errors, then validate(); validated_data when valid
Validate(raw) ==
    IF FieldErrors(raw) \/ RangeErrors(Cleaned(raw))
    THEN [valid |-> FALSE, error |-> "ValidationError"]
    ELSE [valid |-> TRUE, data |-> Cleaned(raw)]

(* ---------------------------- _compute_hash --------------------------- *)

\* chunk_size of _compute_hash, in bytes
ChunkSize == 2

\* the loop "for chunk in iter(lambda: file_obj.read(chunk_size), b'')": f is
\* the stream, fed the bytes given to the hasher so far, n the number of the
\* next read; the read numbered f.fail_at raises
RECURSIVE ReadChunks(_, _, _)
ReadChunks(f, fed, n) ==
    IF n = f.fail_at
    THEN [pos |-> f.pos, fed |-> fed, raised |-> TRUE]
    ELSE LET stop == IF f.pos + ChunkSize < Len(f.data)
                     THEN f.pos + ChunkSize ELSE Len(f.data)
             chunk == SubSeq(f.data, f.pos + 1, stop)
         IN  IF chunk = <<>>
             THEN [pos |-> f.pos, fed |-> fed, raised |-> FALSE]
             ELSE ReadChunks([f EXCEPT !.pos = stop], fed \o chunk, n + 1)

\* mutant of SeekBack: the position is restored after the loop, not in a
\* finally clause
SeekBack_OnSuccessOnly(start_pos, r) == IF r.raised THEN r.pos ELSE start_pos

\* finally: file_obj.seek(start_pos)
SeekBack(start_pos, r) == start_pos

\* _compute_hash(file_obj): start_pos = tell(); seek(0); the read loop;
\* finally seek(start_pos); return hexdigest().  The digest is written as
\* the bytes it covers; pos is the position the stream is left at.
ComputeHash(f) ==
    LET start_pos == f.pos
        r == ReadChunks([f EXCEPT !.pos = 0], <<>>, 1)
    IN  [pos |-> SeekBack(start_pos, r),
         raised |-> r.raised,
         digest |-> IF r.raised THEN <<>> ELSE r.fed]

\* concurrent workers; every upload declares the size of its content
Next ==
    \E p \in Procs :
        \/ \E h \in Hashes : UploadCreate(p, h, SizeOf(h))
        \/ UploadGetExisting(p)
        \/ UploadIncrement(p)
        \/ \E id \in FileIds : DeleteGet(p, id)
        \/ DeleteLock(p)
        \/ DeleteDecrement(p)

Spec == Init /\ [][Next]_vars

\* a statement of the call that worker p is running
Step(p) ==
    \/ UploadGetExisting(p)
    \/ UploadIncrement(p)
    \/ DeleteLock(p)
    \/ DeleteDecrement(p)

\* fair scheduling: a worker whose next statement can run does run it.  A
\* statement waits only for a row lock, which its holder releases with its
\* next statement
Fairness == \A p \in Procs : WF_vars(Step(p))

\* concurrent workers under fair scheduling
SpecFair == Init /\ [][Next]_vars /\ Fairness

\* one caller at a time; an upload may declare any size
NextDeclared ==
    \E p \in Procs :
        /\ \A q \in Procs \ {p} : pc[q] = "idle"
        /\ \/ \E h \in Hashes, sz \in Sizes : UploadCreate(p, h, sz)
           \/ UploadGetExisting(p)
           \/ UploadIncrement(p)
           \/ \E id \in FileIds : DeleteGet(p, id)
           \/ DeleteLock(p)
           \/ DeleteDecrement(p)

SpecDeclared == Init /\ [][NextDeclared]_vars

(* --------------------------- the read side --------------------------- *)

MaxRows == 3       \* rows of the table a read request runs against
MaxLen == 3        \* bytes of a stream given to _compute_hash
MaxRepeats == 2    \* times a client sends one query

\* what the rows of a populated table look like: uploaded once or twice,
\* soft-deleted (ref_count stays 1) or detached once
RowKinds ==
    {[original_filename |-> FileNames[1], size |-> 1024, ref_count |-> 2,
      is_deleted |-> FALSE, version |-> 1],
     [original_filename |-> FileNames[2], size |-> 2048, ref_count |-> 1,
      is_deleted |-> FALSE, version |-> 0],
     [original_filename |-> FileNames[3], size |-> 1024, ref_count |-> 1,
      is_deleted |-> FALSE, version |-> 2],
     [original_filename |-> FileNames[1], size |-> 2048, ref_count |-> 1,
      is_deleted |-> TRUE, version |-> 1]}

\* the tables: row i has its own hash and was inserted at tick i
Tables ==
    UNION {{[i \in 1..n |->
                [file_hash |-> i, size |-> ks[i].size,
                 ref_count |-> ks[i].ref_count, is_deleted |-> ks[i].is_deleted,
                 version |-> ks[i].version,
                 original_filename |-> ks[i].original_filename,
                 uploaded_at |-> i]] : ks \in [1..n -> RowKinds]}
           : n \in 0..MaxRows}

\* the query parameters a client may send; <<>> is an absent parameter:
\* every combination of the filters with the default page, and every
\* combination of page and page_size with a size filter
Queries ==
    [filename : {<<>>, << <<" ", "A", "b">> >>},
     file_extension : {<<>>, << <<"T", " ">> >>},
     min_size : {<<>>, <<1024>>, <<2048>>},
     max_size : {<<>>, <<1024>>},
     start_date : {<<>>, <<2>>},
     end_date : {<<>>, <<1>>, <<2>>},
     page : {<<>>},
     page_size : {<<>>}]
    \cup
    [filename : {<<>>},
     file_extension : {<<>>},
     min_size : {<<>>, <<1024>>, <<2048>>},
     max_size : {<<>>},
     start_date : {<<>>},
     end_date : {<<>>},
     page : {<<>>, <<0>>, <<1>>, <<2>>},
     page_size : {<<>>, <<0>>, <<2>>, <<MaxPageSize>>, <<MaxPageSize + 1>>}]

\* the streams: n bytes that all differ (byte i has the value i), the read
\* position at call time and the number of the read that raises (0: none)
Streams ==
    UNION {[data : {[i \in 1..n |-> i]}, pos : 0..n, fail_at : 0..MaxLen]
           : n \in 0..MaxLen}

\* FileViewSet.list: the query parameters are validated (a ValidationError
\* is answered with status 400) and the validated data goes to search, which
\* runs its queries on the table; a client may send the same query again
List(raw) ==
    /\ \/ request = NoRequest
       \/ request = [op |-> "list", params |-> raw] /\ lookups < MaxRepeats
    /\ request' = [op |-> "list", params |-> raw]
    /\ LET v == Validate(raw)
       IN  IF v.valid
           THEN /\ reply' = [status |-> 200, body |-> search(v.data)]
                /\ lookups' = lookups + 1
           ELSE /\ reply' = [status |-> 400, body |-> v.error]
                /\ lookups' = lookups
    /\ UNCHANGED <<records, rowLocking, lock, pc, arg, inst, obj, size, blobs,
                   log, calls, overlap>>

\* _compute_hash is called on the stream f
Hash(f) ==
    /\ request = NoRequest
    /\ request' = [op |-> "_compute_hash", stream |-> f]
    /\ reply' = ComputeHash(f)
    /\ UNCHANGED <<records, rowLocking, lock, pc, arg, inst, obj, size, blobs,
                   log, calls, overlap, lookups>>

\* one read request against a populated table
InitQuery ==
    /\ records \in Tables
    /\ rowLocking = FALSE
    /\ lock = [id \in FileIds |-> 0]
    /\ pc = [p \in Procs |-> "idle"]
    /\ arg = [p \in Procs |-> 0]
    /\ inst = [p \in Procs |-> NoInst]
    /\ obj = [p \in Procs |-> NoInst]
    /\ size = [p \in Procs |-> 0]
    /\ blobs = [h \in Hashes |-> 0]
    /\ log = <<>>
    /\ calls = 0
    /\ overlap = FALSE
    /\ request = NoRequest
    /\ reply = NoRequest
    /\ lookups = 0

NextQuery ==
    \/ \E raw \in Queries : List(raw)
    \/ \E f \in Streams : Hash(f)

SpecQuery == InitQuery /\ [][NextQuery]_vars

(* ------------------------- reading the history ------------------------ *)

AllIdle == \A p \in Procs : pc[p] = "idle"

\* ids of the rows, deleted or not, whose content hash is b
RecOfHash(b) == {id \in Ids : records[id].file_hash = b}

\* the outcome e belongs to a call about content b: an upload of b or a
\* delete of the record that stores b
Concerns(b, e) ==
    \/ e.op = "upload" /\ e.arg = b
    \/ e.op = "delete" /\ e.arg \in RecOfHash(b)

\* the returned calls about content b, in return order
History(b) == SelectSeq(log, LAMBDA e : Concerns(b, e))

\* the outcome e is an upload that attached to record id: (record, False)
IsAttach(e, id) == e.op = "upload" /\ e.err = "none" /\ e.id = id /\ ~e.is_new

\* the outcome e is a delete of record id that returned False
IsDetach(e, id) == e.op = "delete" /\ e.err = "none" /\ e.id = id /\ ~e.deleted

\* number of returned calls with an outcome of the kind Is about record id
Returned(Is(_, _), id) == Cardinality({i \in 1..Len(log) : Is(log[i], id)})

\* the outcome of the call that returns in this step
Outcome == log'[Len(log')]

(* -------------------------------- C1 ---------------------------------- *)

\* C1: when the whole history is N uploads of the same content b to the
\* initially empty store and all of them have finished, there is exactly one
\* record with hash b and its ref_count is N.
C1_IdenticalUploadsAllCounted ==
    \A b \in Hashes :
        (/\ AllIdle
         /\ Len(log) >= 1
         /\ \A i \in 1..Len(log) : log[i].op = "upload" /\ log[i].arg = b)
        => /\ Cardinality(RecOfHash(b)) = 1
           /\ \A id \in RecOfHash(b) : records[id].ref_count = Len(log)

(* -------------------------------- C2 ---------------------------------- *)

\* C2: in every reachable state no two non-deleted records have the same
\* content hash.
C2_ActiveHashesDistinct ==
    \A i, j \in Ids :
        (i # j /\ ~records[i].is_deleted /\ ~records[j].is_deleted)
        => records[i].file_hash # records[j].file_hash

\* overlapping uploads of one content have returned successfully, another
\* content is stored too
C2_Witness ==
    /\ overlap
    /\ \E i, j \in 1..Len(log) :
          /\ i # j
          /\ log[i].op = "upload" /\ log[j].op = "upload"
          /\ log[i].arg = log[j].arg
          /\ log[i].err = "none" /\ log[j].err = "none"
    /\ \E i, j \in Ids : i # j /\ ~records[i].is_deleted /\ ~records[j].is_deleted

(* -------------------------------- C3 ---------------------------------- *)

\* C3: under any interleaving, for every non-deleted record, ref_count is 1
\* (its creation) plus the number of uploads that returned (that record,
\* False) minus the number of deletes of it that returned False.
C3_RefCountAccounting ==
    \A id \in Ids :
        ~records[id].is_deleted
        => records[id].ref_count =
              1 + Returned(IsAttach, id) - Returned(IsDetach, id)

\* overlapping calls: an attach and a decrementing delete of the same record
\* have returned and one call lost a version conflict
C3_Witness ==
    /\ overlap
    /\ AllIdle
    /\ \E id \in Ids :
          /\ ~records[id].is_deleted
          /\ Returned(IsAttach, id) >= 1
          /\ Returned(IsDetach, id) >= 1
    /\ \E i \in 1..Len(log) : log[i].err = "FileError"

(* -------------------------------- C4 ---------------------------------- *)

\* C4: in a run whose calls do not overlap, when the first two calls about a
\* content b are uploads of b, the first returns a new record (is_new, with
\* ref_count 1), the second returns the same record id with is_new false and
\* ref_count 2, and the stored ref_count is 1 after the first and 2 after
\* the second.
C4_SequentialDuplicateUpload ==
    ~overlap =>
    \A b \in Hashes :
        LET H == History(b) IN
        /\ (Len(H) >= 1 /\ H[1].op = "upload")
           => /\ H[1].err = "none" /\ H[1].is_new /\ H[1].ref_count = 1
              /\ Len(H) = 1 => records[H[1].id].ref_count = 1
        /\ (Len(H) >= 2 /\ H[1].op = "upload" /\ H[2].op = "upload")
           => /\ H[2].err = "none" /\ ~H[2].is_new
              /\ H[2].id = H[1].id
              /\ H[2].ref_count = 2
              /\ Len(H) = 2 => records[H[1].id].ref_count = 2

\* the second of two sequential uploads of one content has returned
C4_Witness ==
    /\ ~overlap
    /\ AllIdle
    /\ \E b \in Hashes :
          /\ Len(History(b)) = 2
          /\ History(b)[1].op = "upload" /\ History(b)[2].op = "upload"
          /\ records[History(b)[2].id].ref_count = 2

(* -------------------------------- C5 ---------------------------------- *)

\* number of uploads among the returned calls about b
Uploads(b) == Cardinality({i \in 1..Len(History(b)) : History(b)[i].op = "upload"})

\* the returned calls about b are k >= 1 uploads followed by at most k deletes
UploadsThenDeletes(b) ==
    /\ Uploads(b) >= 1
    /\ Len(History(b)) <= 2 * Uploads(b)
    /\ \A i \in 1..Uploads(b) : History(b)[i].op = "upload"

\* C5: in a run whose calls do not overlap, when the calls about a content b
\* are k uploads followed by deletes of its record, deletes 1..k-1 return
\* False and delete k returns True, after delete k the record is soft-deleted,
\* and ref_count is never below zero.
C5_UploadKDeleteK ==
    ~overlap =>
    \A b \in Hashes :
        UploadsThenDeletes(b) =>
        LET H == History(b)
            k == Uploads(b)
        IN  /\ \A i \in (k + 1)..Len(H) :
                  /\ H[i].err = "none"
                  /\ H[i].deleted = (i = 2 * k)
            /\ Len(H) = 2 * k
               => \A id \in RecOfHash(b) : records[id].is_deleted
            /\ \A id \in RecOfHash(b) : records[id].ref_count >= 0

\* two uploads and then two deletes of one content have returned
C5_Witness ==
    /\ ~overlap
    /\ AllIdle
    /\ \E b \in Hashes :
          /\ UploadsThenDeletes(b)
          /\ Uploads(b) = 2
          /\ Len(History(b)) = 4
          /\ History(b)[4].deleted

(* -------------------------------- C6 ---------------------------------- *)

\* C6: in a run whose calls do not overlap, when the calls about a content b
\* start with one upload followed by a delete of its record, that delete
\* returns True and every later delete of the same id raises
\* FileMissingError.
C6_DeleteAfterSingleUpload ==
    ~overlap =>
    \A b \in Hashes :
        LET H == History(b) IN
        (Len(H) >= 2 /\ H[1].op = "upload" /\ H[2].op = "delete")
        => /\ H[2].err = "none" /\ H[2].deleted
           /\ \A i \in 3..Len(H) :
                 H[i].op = "delete" => H[i].err = "FileMissingError"

\* upload, delete and a second delete of the same id have returned
C6_Witness ==
    /\ ~overlap
    /\ \E b \in Hashes :
          LET H == History(b) IN
          /\ Len(H) >= 3
          /\ H[1].op = "upload" /\ H[2].op = "delete" /\ H[3].op = "delete"
          /\ H[2].deleted
          /\ H[3].err = "FileMissingError"

(* -------------------------------- C7 ---------------------------------- *)

\* C7: in every reachable state, for every record, ref_count = 0 if and only
\* if is_deleted is true.
C7_ZeroIffDeleted ==
    \A id \in Ids : (records[id].ref_count = 0) <=> records[id].is_deleted

(* -------------------------------- C8 ---------------------------------- *)

\* C8: a step that soft-deletes a record is taken only when the stored
\* ref_count is exactly 1, and the row is then exactly as the deleting call
\* read it: nobody attached between the delete's read and its update.
C8_SoftDeleteOnlyLastReference ==
    [][\A id \in Ids :
          (~records[id].is_deleted /\ records'[id].is_deleted)
          => /\ records[id].ref_count = 1
             /\ \E p \in Procs :
                   /\ pc[p] = "decrement" /\ pc'[p] = "idle"
                   /\ inst[p].id = id
                   /\ inst[p].ref_count = records[id].ref_count
                   /\ inst[p].version = records[id].version
                   /\ Outcome.deleted]_vars

\* a delete soft-deleted a record while an overlapping upload of the same
\* content had already read it; the upload lost the version conflict
C8_Witness ==
    /\ overlap
    /\ \E id \in Ids :
          /\ records[id].is_deleted
          /\ \E i \in 1..Len(log) :
                log[i].op = "delete" /\ log[i].id = id /\ log[i].deleted
          /\ \E j \in 1..Len(log) :
                /\ log[j].op = "upload"
                /\ log[j].arg = records[id].file_hash
                /\ log[j].err = "FileError"

(* -------------------------------- C9 ---------------------------------- *)

\* worker p executes its UPDATE statement in this step
Updates(p) == pc[p] \in {"increment", "decrement"} /\ pc'[p] = "idle"

\* C9: every step that changes a record increases its version; every
\* successful attach and detach (the soft-deleting one included) increases
\* the version of its record; an UPDATE issued with a version older than the
\* stored one changes nothing.
C9_VersionStrictlyIncreases ==
    [][/\ \A id \in Ids :
             records'[id] # records[id]
             => records'[id].version > records[id].version
       /\ \A p \in Procs :
             Updates(p) =>
             LET id == inst[p].id IN
             /\ Outcome.err = "none"
                => records'[id].version > records[id].version
             /\ inst[p].version < records[id].version
                => records'[id] = records[id]]_vars

\* a record went through an attach, a decrementing detach and the
\* soft-deleting detach
C9_Witness ==
    \E id \in Ids :
        /\ records[id].is_deleted
        /\ records[id].version >= 3
        /\ Returned(IsAttach, id) >= 1
        /\ Returned(IsDetach, id) >= 1

(* -------------------------------- C10 --------------------------------- *)

\* C10: increment_ref_count or decrement_ref_count called on an instance
\* whose version is older than the stored one raises the concurrent-update
\* error (FileError at the service) and leaves the table as it was.
C10_StaleInstanceRejected ==
    [][\A p \in Procs :
          (Updates(p) /\ inst[p].version < records[inst[p].id].version)
          => /\ Outcome.err = "FileError"
             /\ records' = records]_vars

\* an upload and a delete have both lost a version conflict
C10_Witness ==
    /\ \E i \in 1..Len(log) : log[i].op = "upload" /\ log[i].err = "FileError"
    /\ \E j \in 1..Len(log) : log[j].op = "delete" /\ log[j].err = "FileError"

(* -------------------------------- C11 --------------------------------- *)

\* the only record of content h is soft-deleted
Blocked(h) ==
    /\ RecOfHash(h) # {}
    /\ \A id \in RecOfHash(h) : records[id].is_deleted

\* an upload of content h executes its INSERT in this step
Inserts(h) == blobs'[h] # blobs[h]

\* C11: once the only record of a content hash is soft-deleted it stays so
\* and no other record of the hash appears; an upload of that content that
\* begins then has its INSERT rejected and changes no record, its re-read
\* finds nothing and it raises FileIntegrityError without changing a record;
\* in a run whose calls do not overlap every upload of the content after the
\* delete that returned True raises FileIntegrityError.
C11_DeletedHashBlocksUpload ==
    /\ [](~overlap =>
           \A b \in Hashes : \A i, j \in 1..Len(History(b)) :
               (/\ i < j
                /\ History(b)[i].op = "delete" /\ History(b)[i].deleted
                /\ History(b)[j].op = "upload")
               => History(b)[j].err = "FileIntegrityError")
    /\ [][\A h \in Hashes :
             Blocked(h) =>
             /\ \A id \in RecOfHash(h) : records'[id] = records[id]
             /\ \A id \in 1..Len(records') :
                   records'[id].file_hash = h => id \in RecOfHash(h)
             /\ Inserts(h)
                => /\ records' = records
                   /\ \E p \in Procs :
                         /\ pc[p] = "idle"
                         /\ pc'[p] = "get_existing" /\ arg'[p] = h
             /\ \A p \in Procs :
                   (pc[p] = "get_existing" /\ arg[p] = h /\ pc'[p] # pc[p])
                   => /\ pc'[p] = "idle"
                      /\ Outcome = Raises("upload", h, "FileIntegrityError")
                      /\ records' = records]_vars

\* after the delete that returned True, an upload of the same content has
\* raised FileIntegrityError and the record is still the only one, deleted
C11_Witness ==
    \E b \in Hashes :
        /\ Blocked(b)
        /\ Cardinality(RecOfHash(b)) = 1
        /\ \E i, j \in 1..Len(History(b)) :
              /\ i < j
              /\ History(b)[i].op = "delete" /\ History(b)[i].deleted
              /\ History(b)[j].op = "upload"
              /\ History(b)[j].err = "FileIntegrityError"

(* -------------------------------- C12 --------------------------------- *)

\* C12: when the INSERT of an upload was rejected by the unique constraint,
\* the upload re-reads the active record of the hash; when there is one it
\* increments that record's ref_count by exactly one and returns (that
\* record, is_new False); when there is none it raises FileIntegrityError
\* and changes no record.
C12_RejectedCreateAttaches ==
    [][\A p \in Procs :
          /\ (pc[p] = "get_existing" /\ pc'[p] # pc[p])
             => IF ActiveByHash(arg[p]) = {}
                THEN /\ pc'[p] = "idle"
                     /\ Outcome = Raises("upload", arg[p], "FileIntegrityError")
                     /\ records' = records
                ELSE /\ pc'[p] = "increment"
                     /\ inst'[p].id \in ActiveByHash(arg[p])
          /\ (pc[p] = "increment" /\ pc'[p] # pc[p])
             => LET id == inst[p].id IN
                /\ Outcome.err = "none"
                /\ Outcome.id = id /\ ~Outcome.is_new
                /\ records'[id].ref_count = records[id].ref_count + 1]_vars

(* -------------------------------- C13 --------------------------------- *)

\* C13: an upload whose content already has an active record attaches to it
\* and returns (existing, False) without writing the bytes to the storage;
\* the bytes are written only when there is no active record of the hash.
C13_BytesWrittenOnlyForNewContent ==
    [][\A h \in Hashes : Inserts(h) => ActiveByHash(h) = {}]_vars

(* -------------------------------- C14 --------------------------------- *)

\* C14: an upload that finds an active record with its hash but with a size
\* different from file_obj.size fails with FileIntegrityError; it neither
\* creates a record nor increments the ref_count of the record found.
C14_SizeMismatchRejected ==
    [][\A p \in Procs :
          (/\ pc[p] = "increment" /\ pc'[p] # pc[p]
           /\ records[inst[p].id].size # size[p])
          => /\ Outcome = Raises("upload", arg[p], "FileIntegrityError")
             /\ records' = records]_vars

(* -------------------------------- C15 --------------------------------- *)

\* the UPDATE that worker p executes in this step meets a version conflict
Conflict(p) == Updates(p) /\ inst[p].version # records[inst[p].id].version

\* C15: when the optimistic UPDATE of an attach meets a version mismatch the
\* attach re-reads the record and retries (a bounded number of times); the
\* first version conflict of an upload does not make the upload fail. Every
\* call of the code issues its UPDATE once, so a conflict met in a step is
\* the first conflict of that call.
C15_SingleConflictDoesNotFailUpload ==
    [][\A p \in Procs :
          (pc[p] = "increment" /\ Conflict(p))
          => ~(pc'[p] = "idle" /\ Outcome.err # "none")]_vars

(* -------------------------------- C16 --------------------------------- *)

\* a call returns or raises in this step
Returning == log' # log

\* the table after the effect that the successful outcome e stands for has
\* been applied to it once
Applied(e) ==
    IF e.op = "upload" /\ e.is_new
    THEN Append(records, NewFile(e.arg, records'[Len(records')].size))
    ELSE IF e.op = "upload"
    THEN [records EXCEPT ![e.id].ref_count = @ + 1, ![e.id].version = @ + 1]
    ELSE IF e.deleted
    THEN [records EXCEPT ![e.id].is_deleted = TRUE, ![e.id].version = @ + 1]
    ELSE [records EXCEPT ![e.id].ref_count = @ - 1, ![e.id].version = @ + 1]

\* C16: an upload or delete whose optimistic UPDATE loses a version conflict
\* raises FileError and changes nothing; a call that returns a success
\* result has applied its create, increment, decrement or soft-delete
\* exactly once: the table changes in no other step of the call, and in the
\* returning step it changes by exactly that one effect; a call that raises
\* leaves the table as it was.
C16_ConflictNeverSuccess ==
    [][/\ \A p \in Procs :
             Conflict(p) => /\ Outcome.err = "FileError"
                            /\ Outcome.op = (IF pc[p] = "increment"
                                             THEN "upload" ELSE "delete")
                            /\ records' = records
       /\ ~Returning => records' = records
       /\ (Returning /\ Outcome.err # "none") => records' = records
       /\ (Returning /\ Outcome.err = "none")
          => /\ Outcome.id \in 1..Len(records')
             /\ Outcome.is_new => Outcome.id = Len(records')
             /\ records' = Applied(Outcome)
             /\ records' # records]_vars

\* a create, an attach and a detach have returned successfully and a call
\* that lost a version conflict has raised FileError
C16_Witness ==
    /\ \E i \in 1..Len(log) : log[i].op = "upload" /\ log[i].err = "none" /\ log[i].is_new
    /\ \E i \in 1..Len(log) : log[i].op = "upload" /\ log[i].err = "none" /\ ~log[i].is_new
    /\ \E i \in 1..Len(log) : log[i].op = "delete" /\ log[i].err = "none"
    /\ \E i \in 1..Len(log) : log[i].err = "FileError"

(* -------------------------------- C17 --------------------------------- *)

\* C17: delete_file returns True exactly when the call soft-deleted the
\* record, whose stored ref_count was 1, and returns False exactly when the
\* call decremented ref_count by one, from a value above 1, and left the
\* record active.
C17_DeleteResultTellsSoftDelete ==
    [][\A p \in Procs :
          (pc[p] = "decrement" /\ pc'[p] = "idle" /\ Outcome.err = "none")
          => LET id == inst[p].id IN
             /\ Outcome.op = "delete" /\ Outcome.id = id
             /\ ~records[id].is_deleted
             /\ Outcome.deleted
                <=> /\ records[id].ref_count = 1
                    /\ records'[id].is_deleted
                    /\ records'[id].ref_count = records[id].ref_count
             /\ ~Outcome.deleted
                <=> /\ records[id].ref_count > 1
                    /\ records'[id].ref_count = records[id].ref_count - 1
                    /\ ~records'[id].is_deleted]_vars

\* the deletes of one record returned False and then True; the record is
\* soft-deleted
C17_Witness ==
    \E i, j \in 1..Len(log) :
        /\ i < j
        /\ log[i].op = "delete" /\ log[j].op = "delete"
        /\ log[i].err = "none" /\ log[j].err = "none"
        /\ log[i].id = log[j].id
        /\ ~log[i].deleted /\ log[j].deleted
        /\ records[log[j].id].is_deleted

(* -------------------------------- C18 --------------------------------- *)

\* no record has the id, or the record with the id is soft-deleted
Missing(id) == id \notin Ids \/ records[id].is_deleted

\* C18: get_file and delete_file on an id that has no record, or whose
\* record is soft-deleted, raise FileMissingError; the delete_file ends with
\* that error in its first statement and no record changes.
C18_MissingIdRaisesNotFound ==
    /\ [](\A id \in FileIds :
             Missing(id) => get_file(id) = Raises("get_file", id, "FileMissingError"))
    /\ [][\A p \in Procs, id \in FileIds :
             (Missing(id) /\ DeleteGet(p, id))
             => /\ pc'[p] = "idle"
                /\ Outcome = Raises("delete", id, "FileMissingError")
                /\ records' = records]_vars

\* delete_file has raised FileMissingError for an id without a record and
\* for the id of a soft-deleted record, for which get_file raises it too
C18_Witness ==
    \E i, j \in 1..Len(log) :
        /\ log[i].op = "delete" /\ log[i].err = "FileMissingError"
        /\ log[j].op = "delete" /\ log[j].err = "FileMissingError"
        /\ log[i].arg \notin Ids
        /\ log[j].arg \in Ids /\ records[log[j].arg].is_deleted
        /\ get_file(log[j].arg).err = "FileMissingError"

(* -------------------------------- C19 --------------------------------- *)

\* C19: no attach, detach or soft-delete changes the size, the content hash
\* or the id of a record: no step removes or moves a row, every row keeps its
\* size and file_hash in every step, and a successful attach or detach
\* reports the id of the row it updated.
C19_SizeHashIdImmutable ==
    [][/\ Len(records') >= Len(records)
       /\ \A id \in Ids :
             /\ records'[id].size = records[id].size
             /\ records'[id].file_hash = records[id].file_hash
       /\ \A p \in Procs :
             (Updates(p) /\ Outcome.err = "none")
             => /\ Outcome.id = inst[p].id
                /\ \A id \in Ids \ {inst[p].id} : records'[id] = records[id]]_vars

\* one record was attached to and another one was soft-deleted; both still
\* have the size and hash they were created with
C19_Witness ==
    \E i, j \in Ids :
        /\ i # j
        /\ records[i].is_deleted
        /\ Returned(IsAttach, j) >= 1
        /\ \A id \in {i, j} :
              /\ records[id].size = SizeOf(records[id].file_hash)
              /\ \E k \in 1..Len(log) :
                    /\ log[k].op = "upload" /\ log[k].is_new /\ log[k].id = id
                    /\ log[k].arg = records[id].file_hash

(* -------------------------------- C20 --------------------------------- *)

\* the non-deleted records
Active == {id \in Ids : ~records[id].is_deleted}

\* sum of size * ref_count over the records with ids in S
RECURSIVE TotalOf(_)
TotalOf(S) ==
    IF S = {} THEN 0
    ELSE LET id == CHOOSE x \in S : TRUE
         IN  records[id].size * records[id].ref_count + TotalOf(S \ {id})

\* sum of size over the records with ids in S
RECURSIVE StoredOf(_)
StoredOf(S) ==
    IF S = {} THEN 0
    ELSE LET id == CHOOSE x \in S : TRUE
         IN  records[id].size + StoredOf(S \ {id})

\* the returned calls are: two distinct 1024-byte contents uploaded once
\* each, then a duplicate upload of the first
TwoContentsOneDuplicate ==
    /\ Len(log) = 3
    /\ \A i \in 1..3 : log[i].op = "upload" /\ log[i].err = "none"
    /\ log[1].is_new /\ log[2].is_new /\ ~log[3].is_new
    /\ log[1].arg # log[2].arg /\ log[3].arg = log[1].arg
    /\ records[log[1].id].size = 1024 /\ records[log[2].id].size = 1024

\* C20: in every reachable state get_storage_summary returns
\* total_file_size = sum of size * ref_count over the non-deleted records,
\* deduplicated_storage = sum of size over them and storage_saved = their
\* difference; after two distinct 1024-byte contents uploaded once each and
\* a duplicate upload of the first it returns 2048 stored, 3072 total and a
\* savings percentage of 33.33.
C20_StorageSummary ==
    \A s \in {get_storage_summary} :
        /\ s.total_file_size = TotalOf(Active)
        /\ s.deduplicated_storage = StoredOf(Active)
        /\ s.storage_saved = s.total_file_size - s.deduplicated_storage
        /\ TwoContentsOneDuplicate
           => s = [total_file_size |-> 3072, deduplicated_storage |-> 2048,
                   storage_saved |-> 1024, savings_percentage |-> 3333]

\* the three uploads of the example have returned
C20_Witness ==
    /\ TwoContentsOneDuplicate
    /\ AllIdle
    /\ get_storage_summary.deduplicated_storage = 2048

(* -------------------------------- C21 --------------------------------- *)

\* C21: when the store has no active record (it is empty, or every record
\* is soft-deleted) get_storage_summary returns 0 for all four fields, the
\* savings percentage included.
C21_EmptyStoreSummaryIsZero ==
    Active = {}
    => get_storage_summary = [total_file_size |-> 0, deduplicated_storage |-> 0,
                              storage_saved |-> 0, savings_percentage |-> 0]

\* a content was uploaded twice and its record is soft-deleted now
C21_Witness ==
    /\ Ids # {}
    /\ Active = {}
    /\ \E id \in Ids : Returned(IsAttach, id) >= 1
    /\ get_storage_summary.savings_percentage = 0

(* -------------------------------- C22 --------------------------------- *)

\* what the completed call with outcome e adds to the bytes uploaded: an
\* upload adds the size of its record, a delete takes it away, a failed call
\* adds nothing
TotalDelta(e) ==
    IF e.err # "none" THEN 0
    ELSE IF e.op = "upload" THEN records[e.id].size
    ELSE 0 - records[e.id].size

\* what it adds to the bytes stored: a create adds the size of its record, a
\* soft-deleting delete takes it away
StoredDelta(e) ==
    IF e.err # "none" THEN 0
    ELSE IF e.op = "upload" /\ e.is_new THEN records[e.id].size
    ELSE IF e.op = "delete" /\ e.deleted THEN 0 - records[e.id].size
    ELSE 0

\* the sum of Delta over the first n completed calls
RECURSIVE TotalAfter(_)
TotalAfter(n) == IF n = 0 THEN 0 ELSE TotalAfter(n - 1) + TotalDelta(log[n])
RECURSIVE StoredAfter(_)
StoredAfter(n) == IF n = 0 THEN 0 ELSE StoredAfter(n - 1) + StoredDelta(log[n])

\* C22: the storage summary taken in any state is computed from the records
\* as they are after every upload and delete completed so far, the last one
\* included: its total is the sum of what each completed call added or took
\* away, and so is its stored size; no completed mutation is missing from
\* it.
C22_SummaryFollowsMutation ==
    \A s \in {get_storage_summary} :
        /\ s.total_file_size = TotalAfter(Len(log))
        /\ s.deduplicated_storage = StoredAfter(Len(log))
        /\ s.storage_saved = TotalAfter(Len(log)) - StoredAfter(Len(log))

\* a create, an attach, a decrementing delete and a soft-deleting delete
\* have completed and the summary is that of the empty store again
C22_Witness ==
    /\ AllIdle
    /\ \E i \in 1..Len(log) : log[i].op = "upload" /\ log[i].err = "none" /\ log[i].is_new
    /\ \E i \in 1..Len(log) : log[i].op = "upload" /\ log[i].err = "none" /\ ~log[i].is_new
    /\ \E i \in 1..Len(log) : log[i].op = "delete" /\ log[i].err = "none" /\ ~log[i].deleted
    /\ \E i \in 1..Len(log) : log[i].op = "delete" /\ log[i].err = "none" /\ log[i].deleted
    /\ get_storage_summary.total_file_size = 0

(* -------------------------------- C23 --------------------------------- *)

\* C23: once the result of a query is cached, the identical query sent
\* again, with no upload or delete in between, is answered with the same
\* payload without running the queries of search on the table.
C23_RepeatedQueryServedFromCache ==
    [][(/\ request.op = "list" /\ reply.status = 200
        /\ request' = request
        /\ records' = records)
       => /\ reply' = reply
          /\ lookups' = lookups]_vars

(* -------------------------------- C24 --------------------------------- *)

\* a request without any query parameter
NoParams == [filename |-> <<>>, file_extension |-> <<>>, min_size |-> <<>>,
             max_size |-> <<>>, start_date |-> <<>>, end_date |-> <<>>,
             page |-> <<>>, page_size |-> <<>>]

\* the list request has been answered with a search result
Answered == request.op = "list" /\ reply.status = 200

\* ids of the items of a search result
ItemIds(body) == {body.items[i].id : i \in DOMAIN body.items}

\* C24: no soft-deleted record appears in a search result or is counted in
\* its total; every active record, one whose ref_count was decremented
\* included, is eligible: the search without filters returns all of them
\* with their current ref_count.
C24_OnlyActiveRecordsSearchable ==
    /\ Answered
       => /\ ItemIds(reply.body) \subseteq Active
          /\ reply.body.total <= Cardinality(Active)
    /\ LET all == search(Validate(NoParams).data)
       IN  /\ ItemIds(all) = Active
           /\ all.total = Cardinality(Active)
           /\ \A i \in DOMAIN all.items :
                 all.items[i].ref_count = records[all.items[i].id].ref_count

\* the table holds a soft-deleted record and an active one that was
\* attached to and detached from; the search returned the second only
C24_Witness ==
    /\ Answered
    /\ \E i, j \in Ids :
          /\ records[i].is_deleted
          /\ ~records[j].is_deleted /\ records[j].version = 2 /\ records[j].ref_count = 1
          /\ i \notin ItemIds(reply.body)
          /\ j \in ItemIds(reply.body)
          /\ reply.body.total = Cardinality(Active)

(* -------------------------------- C25 --------------------------------- *)

\* the request filters on size only and asks for the default first page
SizeQuery ==
    /\ Answered
    /\ request.params = [NoParams EXCEPT !.min_size = request.params.min_size,
                                         !.max_size = request.params.max_size]

\* the items are in the order of most recent upload first
NewestFirst(body) ==
    \A i, j \in DOMAIN body.items :
        i < j => body.items[i].uploaded_at > body.items[j].uploaded_at

\* C25: a search with min_size = m and/or max_size = M returns exactly the
\* non-deleted records with m <= size <= M, both bounds inclusive, most
\* recently uploaded first.
C25_SizeRangeInclusive ==
    SizeQuery =>
    LET m == request.params.min_size
        M == request.params.max_size
        expected == {id \in Ids :
                        /\ ~records[id].is_deleted
                        /\ m # <<>> => m[1] <= records[id].size
                        /\ M # <<>> => records[id].size <= M[1]}
    IN  /\ ItemIds(reply.body) = expected
        /\ Len(reply.body.items) = Cardinality(expected)
        /\ reply.body.total = Cardinality(expected)
        /\ \A i \in DOMAIN reply.body.items :
              reply.body.items[i].file_size = records[reply.body.items[i].id].size
        /\ NewestFirst(reply.body)

\* a search with min_size = max_size = 1024 returned the two active records
\* of that size and left out an active record of 2048 bytes
C25_Witness ==
    /\ SizeQuery
    /\ request.params.min_size = <<1024>> /\ request.params.max_size = <<1024>>
    /\ Len(reply.body.items) = 2
    /\ \E id \in Active : records[id].size = 2048

(* -------------------------------- C26 --------------------------------- *)

Min(a, b) == IF a < b THEN a ELSE b
Max(a, b) == IF a > b THEN a ELSE b

\* the whole filtered list of the answered request, most recent first: the
\* items of the same search on one page that holds every row
FilteredList ==
    search([Validate(request.params).data EXCEPT
               !.page = <<1>>, !.page_size = <<MaxPageSize>>]).items

\* C26: a search with page p (counted from 1) and page size s returns
\* exactly the items at the 0-based positions (p-1)*s .. p*s-1 of the
\* filtered list ordered most recently uploaded first, fewer or none when
\* the list ends earlier, and its total is the length of that list whatever
\* p and s are.
C26_PageIsSliceOfFilteredList ==
    Answered =>
    LET p == reply.body.page
        s == reply.body.page_size
        full == FilteredList
        n == Max(0, Min(s, Len(full) - (p - 1) * s))
    IN  /\ p = (IF request.params.page = <<>> THEN 1 ELSE request.params.page[1])
        /\ s = (IF request.params.page_size = <<>> THEN 20
                ELSE request.params.page_size[1])
        /\ NewestFirst([items |-> full])
        /\ ItemIds([items |-> full]) = Matching(Validate(request.params).data)
        /\ Len(full) = Cardinality(Matching(Validate(request.params).data))
        /\ Len(reply.body.items) = n
        /\ \A k \in 1..n : reply.body.items[k] = full[(p - 1) * s + k]
        /\ reply.body.total = Len(full)

\* page 2 with page size 2 of three matching records returned the third,
\* oldest, one and a total of 3
C26_Witness ==
    /\ Answered
    /\ reply.body.page = 2 /\ reply.body.page_size = 2
    /\ reply.body.total = 3
    /\ Len(reply.body.items) = 1
    /\ \A id \in Active : reply.body.items[1].uploaded_at <= records[id].uploaded_at

(* -------------------------------- C27 --------------------------------- *)

\* the list request was rejected by the validation and search did not run
Rejected == request.op = "list" /\ reply.status = 400 /\ lookups = 0

\* C27: the validation of the search parameters rejects page < 1 and
\* page_size outside 1..100 and uses page 1 and page_size 20 when they are
\* absent; page_size 100 itself is accepted; search never runs with a page
\* below 1 or a page size above the maximum.
C27_PaginationValidated ==
    request.op = "list" =>
    LET page == request.params.page
        page_size == request.params.page_size
    IN  /\ (page # <<>> /\ page[1] < 1) => Rejected
        /\ (page_size # <<>> /\ (page_size[1] < 1 \/ page_size[1] > 100))
           => Rejected
        /\ reply.status \in {200, 400}
        /\ reply.status = 400 => Rejected
        /\ Answered
           => /\ reply.body.page >= 1
              /\ reply.body.page_size \in 1..100
              /\ page = <<>> => reply.body.page = 1
              /\ page_size = <<>> => reply.body.page_size = 20
        /\ request.params = [NoParams EXCEPT !.page_size = <<100>>] => Answered

\* a request with page_size 101 and a valid page was rejected
C27_Witness ==
    /\ Rejected
    /\ request.params.page = <<1>>
    /\ request.params.page_size = <<101>>
    /\ Ids # {}

(* -------------------------------- C28 --------------------------------- *)

\* both bounds of a range are given and the lower one is above the upper one
Inverted(lo, hi) == lo # <<>> /\ hi # <<>> /\ lo[1] > hi[1]

\* C28: the validation of the search parameters rejects min_size > max_size
\* and start_date > end_date; a request whose ranges have equal bounds, one
\* bound or none, and whose other parameters are valid, is accepted.
C28_RangesValidated ==
    request.op = "list" =>
    LET q == request.params
        inverted == \/ Inverted(q.min_size, q.max_size)
                    \/ Inverted(q.start_date, q.end_date)
    IN  /\ inverted => Rejected
        /\ (~inverted /\ q.page = <<>> /\ q.page_size = <<>>) => Answered

\* min_size 2048 with max_size 1024 was rejected although the date range,
\* with equal bounds, is valid
C28_Witness ==
    /\ Rejected
    /\ request.params.min_size = <<2048>> /\ request.params.max_size = <<1024>>
    /\ request.params.start_date = <<2>> /\ request.params.end_date = <<2>>

(* -------------------------------- C29 --------------------------------- *)

FilterKeys == {"filename", "file_extension", "min_size", "max_size",
               "start_date", "end_date"}

\* the filters the request gives
GivenFilters == {k \in FilterKeys : request.params[k] # <<>>}

\* ids matched by the search that has the filter k of the request and no
\* other filter
Alone(k) ==
    ItemIds(search(Validate([NoParams EXCEPT ![k] = request.params[k]]).data))

\* the request asks for the default first page, which holds every row
FirstPage == Answered /\ request.params.page = <<>> /\ request.params.page_size = <<>>

\* C29: on one table the records matched by a search with several filters
\* are the intersection of the records matched by the searches with each of
\* these filters alone; a filter that is absent does not restrict the
\* result, and without filters every active record is matched.
C29_FiltersIntersect ==
    FirstPage =>
    LET both == {id \in Active : \A k \in GivenFilters : id \in Alone(k)}
    IN  /\ ItemIds(reply.body) = both
        /\ reply.body.total = Cardinality(both)
        /\ GivenFilters = {} => ItemIds(reply.body) = Active

\* a search with two or more filters matched some record and fewer records
\* than any of its filters alone
C29_Witness ==
    /\ FirstPage
    /\ Cardinality(GivenFilters) >= 2
    /\ reply.body.total >= 1
    /\ \A k \in GivenFilters : Alone(k) # ItemIds(reply.body)

(* -------------------------------- C30 --------------------------------- *)

\* _compute_hash has been called on a stream
Hashed == request.op = "_compute_hash"

\* number of reads the loop makes on a stream whose reads all succeed: one
\* for every chunk and the last one that returns b""
ReadsOf(f) == (Len(f.data) + ChunkSize - 1) \div ChunkSize + 1

\* C30: _compute_hash leaves the read position of the stream where it was
\* before the call on every exit path: when it returns the digest, and when
\* a read of the stream raises, which makes the call raise.
C30_PositionRestored ==
    Hashed =>
    /\ reply.pos = request.stream.pos
    /\ reply.raised <=> request.stream.fail_at \in 1..ReadsOf(request.stream)

\* the stream was positioned inside its content, the second read raised
\* after the first chunk had been consumed, and the position is restored
C30_Witness ==
    /\ Hashed
    /\ reply.raised
    /\ request.stream.fail_at = 2
    /\ request.stream.pos > 0 /\ request.stream.pos < Len(request.stream.data)
    /\ reply.pos = request.stream.pos

(* -------------------------------- C31 --------------------------------- *)

\* the bytes of the stream f from its read position to end-of-stream
FromPosition(f) == SubSeq(f.data, f.pos + 1, Len(f.data))

\* C31: the digest returned by _compute_hash covers the bytes from the
\* stream's read position at call time to end-of-stream.
C31_DigestCoversFromPosition ==
    (Hashed /\ ~reply.raised) => reply.digest = FromPosition(request.stream)

(* -------------------------------- C32 --------------------------------- *)

\* FileViewSet.create, after the serializer accepted the upload: what the
\* client gets for the outcome e of upload_file.  FileIntegrityError is
\* answered with 409, any other FileError is raised again as the
\* ValidationError of rest_framework, which the exception handler turns
\* into status 400
create(e) ==
    IF e.err = "FileIntegrityError"
    THEN [status |-> 409, exc |-> "none"]
    ELSE IF e.err \in {"FileError", "FileMissingError"}
    THEN [status |-> 400, exc |-> "ValidationError"]
    ELSE [status |-> IF e.is_new THEN 201 ELSE 200, exc |-> "none"]

\* FileViewSet.destroy: what the client gets for the outcome e of
\* delete_file.  FileMissingError is raised again as NotFound (404, as is
\* the Http404 of get_object), any other FileError as APIException (500)
destroy(e) ==
    IF e.err = "FileMissingError"
    THEN [status |-> 404, exc |-> "NotFound"]
    ELSE IF e.err \in {"FileError", "FileIntegrityError"}
    THEN [status |-> 500, exc |-> "APIException"]
    ELSE [status |-> 200, exc |-> "none"]

\* the response of the view to the call with outcome e
Response(e) == IF e.op = "upload" THEN create(e) ELSE destroy(e)

\* C32: the input of every call is well formed, so no call is answered with
\* a validation error; a call that failed on an optimistic-lock conflict is
\* answered with an error that is not a validation error.
C32_ValidationErrorOnlyForMalformedInput ==
    \A i \in 1..Len(log) :
        /\ Response(log[i]).exc # "ValidationError"
        /\ log[i].err = "FileError"
           => Response(log[i]).exc \notin {"none", "ValidationError"}

(* -------------------------------- C33 --------------------------------- *)

C34_SoftDeletedIsTerminal ==
    [][\A id \in Ids :
          records[id].is_deleted
          => /\ records'[id].is_deleted
             /\ records'[id].ref_count = records[id].ref_count
             /\ records'[id].version = records[id].version]_vars

\* a record was soft-deleted while another delete that had read it was
\* still running; that delete and an upload of the record's content have
\* failed since, and the record is as the soft-delete left it
C34_Witness ==
    \E id \in Ids : \E i, j, k \in 1..Len(log) :
        /\ records[id].is_deleted
        /\ i < j /\ i < k
        /\ log[i].op = "delete" /\ log[i].id = id /\ log[i].deleted
        /\ log[j].op = "delete" /\ log[j].arg = id /\ log[j].err = "FileError"
        /\ log[k].op = "upload" /\ log[k].arg = records[id].file_hash
        /\ log[k].err # "none"
        /\ records[id].version = 1

(* -------------------------------- C35 --------------------------------- *)

\* the workers whose attach or detach of record id is under way with an
\* instance that was read at version v
Readers(id, v) ==
    {p \in Procs : /\ pc[p] \in {"increment", "lock", "decrement"}
                   /\ inst[p].id = id
                   /\ inst[p].version = v}

UploadsOf(b) == {i \in 1..Len(log) : log[i].op = "upload" /\ log[i].arg = b}

\* C36: the store starts with no record for any hash.  Among the uploads of
\* one content b, in any interleaving, exactly one returns is_new = True;
\* every other one returns (the same record, False) or raises an error; no
\* two of them return different record ids, and the id returned is that of
\* the one record with hash b.
C36_OneUploadCreates ==
    \A b \in Hashes :
        UploadsOf(b) # {} =>
        /\ Cardinality({i \in UploadsOf(b) : log[i].err = "none" /\ log[i].is_new}) = 1
        /\ Cardinality(RecOfHash(b)) = 1
        /\ \A i \in UploadsOf(b) :
              \/ log[i].err = "none" /\ log[i].id \in RecOfHash(b)
              \/ log[i].err \in {"FileError", "FileIntegrityError"}

\* three uploads of one content and nothing else have run, two of them
\* overlapping: one created the record, one attached to it and one lost the
\* version conflict
C36_Witness ==
    /\ overlap
    /\ Len(log) = 3
    /\ \E b \in Hashes : \E i, j, k \in UploadsOf(b) :
          /\ log[i].err = "none" /\ log[i].is_new
          /\ log[j].err = "none" /\ ~log[j].is_new /\ log[j].id = log[i].id
          /\ log[k].err = "FileError"

(* -------------------------------- C37 --------------------------------- *)

\* the returned delete_file calls on record id that returned True
DeletesReturningTrue(id) ==
    {i \in 1..Len(log) : /\ log[i].op = "delete" /\ log[i].arg = id
                         /\ log[i].err = "none" /\ log[i].deleted}

\* C37: for every record, under any interleaving of deletes and uploads, at
\* most one delete_file call returns True, and a record for which one did is
\* soft-deleted.
C37_AtMostOneDeleteReturnsTrue ==
    \A id \in Ids :
        /\ Cardinality(DeletesReturningTrue(id)) <= 1
        /\ DeletesReturningTrue(id) # {} => records[id].is_deleted

\* three deletes of one record: two overlapped, of which one returned True
\* and the other raised FileError; a later one raised FileMissingError
C37_Witness ==
    /\ overlap
    /\ \E id \in Ids : \E j, k \in 1..Len(log) :
          /\ Cardinality(DeletesReturningTrue(id)) = 1
          /\ log[j].op = "delete" /\ log[j].arg = id /\ log[j].err = "FileError"
          /\ log[k].op = "delete" /\ log[k].arg = id
          /\ log[k].err = "FileMissingError"

(* -------------------------------- C38 --------------------------------- *)

\* C38: under fair scheduling every upload_file and delete_file call that
\* has begun eventually returns or raises: no call repeats a statement
\* without bound, and no set of concurrent calls waits for ever on the row
\* lock or on the unique constraint.  A run starts MaxCalls calls at most,
\* so this says that from some point on no call is running.
C38_EveryCallReturns == <>[]AllIdle

\* the database locks rows; a delete holds the lock of a record while an
\* upload waits for it with its UPDATE and another delete waits for it with
\* its SELECT ... FOR UPDATE
C38_Witness ==
    /\ rowLocking
    /\ \E p, q, r \in Procs :
          /\ pc[q] = "decrement" /\ lock[inst[q].id] = q
          /\ pc[p] = "increment" /\ inst[p].id = inst[q].id
          /\ pc[r] = "lock" /\ inst[r].id = inst[q].id

=============================================================================
